---- MODULE Spec2Model ----
(***************************************************************************)
(* State-machine model of Backend-flask/app.py (PaymeCrypto): the chain    *)
(* registry (RPC_URLS, get_web3), the two CoinGecko TTL caches, the        *)
(* contract resolver and compute_balance_for_chain.                        *)
(*                                                                         *)
(* Conventions: Python None is "None" for strings, -1 for numbers and a    *)
(* tagged record for objects.  Floats are natural numbers (balances and    *)
(* prices are small integers, usd_value their product).  time.time() is    *)
(* the integer variable now, in seconds.                                   *)
(***************************************************************************)
EXTENDS Integers, Sequences, FiniteSets, TLC

VARIABLES
    RPC_URLS,            \* app.py:66   chain key -> rpc url
    WEB3_PROVIDERS,      \* app.py:127  chain key -> Web3 handle
    CHAIN_CONFIG_JSON,   \* app.py:141  the CHAIN_CONFIG_JSON environment variable
    CHAIN_CONFIG_PATH,   \* app.py:130  path of the chains file, or None
    CHAIN_CONFIG_MTIME,  \* app.py:138  mtime of the chains file at its last load
    chainsFile,          \* the chains file on disk: [mtime, content]
    MARKETS_CACHE,       \* app.py:122  key -> [ts, data]
    COIN_DETAIL_CACHE,   \* app.py:123  coin id -> [ts, data]
    now,                 \* time.time()
    cgRev,             \* the market provider's data revision (prices move with it)
    cgPlatforms,         \* the market provider's platform map of each coin
    handles,             \* every Web3 object constructed so far
    failedKeys,          \* the chain keys whose handle creation has failed so far
    thr,                 \* the worker threads inside get_web3
    cm,                  \* the last cache lookup: its arguments and what it did
    call                 \* the compute_balance_for_chain call in progress

vars == <<RPC_URLS, WEB3_PROVIDERS, CHAIN_CONFIG_JSON, CHAIN_CONFIG_PATH,
          CHAIN_CONFIG_MTIME, chainsFile, MARKETS_CACHE, COIN_DETAIL_CACHE,
          now, cgRev, cgPlatforms, handles, failedKeys, thr, cm, call>>

registryVars == <<RPC_URLS, WEB3_PROVIDERS, CHAIN_CONFIG_MTIME, handles, failedKeys>>
configVars == <<CHAIN_CONFIG_JSON, CHAIN_CONFIG_PATH, chainsFile>>
cacheVars == <<MARKETS_CACHE, COIN_DETAIL_CACHE>>
providerVars == <<cgRev, cgPlatforms>>

None == "None"
NoneNum == 0 - 1

(***************************************************************************)
(* Bounds of the model.                                                    *)
(***************************************************************************)
MaxCreated == 3      \* Web3 objects constructed in one behaviour
MaxMtime == 1        \* edits of the chains file in one behaviour
MaxTime == 61        \* the clock stops here
MaxCoinIds == 2      \* length of the coin_ids argument
MaxTokens == 1       \* length of the tokens argument

(***************************************************************************)
(* Configuration (app.py:62-138).                                          *)
(***************************************************************************)
DefaultRpcKeys ==
    {"ethereum", "bsc", "polygon", "avax", "arbitrum", "optimism", "fantom",
     "cronos", "solana"}

\* RPC_URLS as the module body leaves it: every default key has its default url.
DefaultRpcUrls == [k \in DefaultRpcKeys |-> "default"]

PlatformKeys ==
    {"ethereum", "binance-smart-chain", "polygon-pos", "avalanche",
     "arbitrum-one", "optimistic-ethereum", "fantom", "solana"}

PLATFORM_TO_CHAIN_KEY ==
    [p \in PlatformKeys |->
        CASE p = "ethereum" -> "ethereum"
          [] p = "binance-smart-chain" -> "bsc"
          [] p = "polygon-pos" -> "polygon"
          [] p = "avalanche" -> "avax"
          [] p = "arbitrum-one" -> "arbitrum"
          [] p = "optimistic-ethereum" -> "optimism"
          [] p = "fantom" -> "fantom"
          [] p = "solana" -> "solana"]

NativeCoinIds ==
    {"ethereum", "binancecoin", "polygon", "avalanche-2", "arbitrum",
     "optimism", "fantom", "solana"}

NATIVE_COIN_TO_CHAIN ==
    [c \in NativeCoinIds |->
        CASE c = "ethereum" -> "ethereum"
          [] c = "binancecoin" -> "bsc"
          [] c = "polygon" -> "polygon"
          [] c = "avalanche-2" -> "avax"
          [] c = "arbitrum" -> "arbitrum"
          [] c = "optimism" -> "optimism"
          [] c = "fantom" -> "fantom"
          [] c = "solana" -> "solana"]

CACHE_TTL == 12
COIN_DETAIL_TTL == 60

\* gunicorn runs this many threads in each worker process.
threads == 2
Threads == 1..threads

(***************************************************************************)
(* Chain configuration sources (app.py:140-210).  A source is absent, holds *)
(* text that does not parse ("malformed"), or holds a map chain key -> url. *)
(* The chains file has an mtime; mtime 0 stands for a file that is missing. *)
(***************************************************************************)
EmptyMap == [k \in {} |-> "default"]
Absent == [kind |-> "absent", map |-> EmptyMap]
MalformedText == [kind |-> "malformed", map |-> EmptyMap]
MapText(m) == [kind |-> "map", map |-> m]

\* json.loads of the environment variable; {} when unset or unparsable.
load_chains_from_env_json ==
    IF CHAIN_CONFIG_JSON.kind = "map" THEN CHAIN_CONFIG_JSON.map ELSE EmptyMap

\* The chains file parsed; {} when missing or unparsable.
load_chains_file ==
    IF CHAIN_CONFIG_PATH = None \/ chainsFile.mtime = 0 THEN EmptyMap
    ELSE IF chainsFile.text.kind = "map" THEN chainsFile.text.map
    ELSE EmptyMap

\* for k, v in m.items(): RPC_URLS[k] = v
\* A reload that replaces the registry by the loaded map when there is one.
MergeReplace(rpc, m) == IF DOMAIN m = {} THEN rpc ELSE m

\* for k, v in m.items(): RPC_URLS[k] = v
MergeInto(rpc, m) ==
    [k \in (DOMAIN rpc) \cup (DOMAIN m) |-> IF k \in DOMAIN m THEN m[k] ELSE rpc[k]]

\* The registry after reload_rpc_config_if_changed: [rpc, mtime].
reload_rpc_config_if_changed ==
    LET r1 == MergeInto(RPC_URLS, load_chains_from_env_json)
    IN  IF CHAIN_CONFIG_PATH = None \/ chainsFile.mtime = 0
        THEN [rpc |-> r1, mtime |-> CHAIN_CONFIG_MTIME]
        ELSE IF CHAIN_CONFIG_MTIME = NoneNum \/ chainsFile.mtime # CHAIN_CONFIG_MTIME
             THEN [rpc |-> MergeInto(r1, load_chains_file), mtime |-> chainsFile.mtime]
             ELSE [rpc |-> r1, mtime |-> CHAIN_CONFIG_MTIME]

(***************************************************************************)
(* get_web3 (app.py:212-229).  A handle is the Web3 object: the key and    *)
(* url it was built for and the serial number of its construction.         *)
(***************************************************************************)
NoHandle == [key |-> None, url |-> None, n |-> 0]

NewHandle(key, rpc) == [key |-> key, url |-> rpc[key], n |-> Cardinality(handles) + 1]

\* _WEB3_PROVIDERS[chain_key] = w3
StoreHandle(providers, key, w3) ==
    [k \in (DOMAIN providers) \cup {key} |-> IF k = key THEN w3 ELSE providers[k]]

\* A get_web3 that remembered failures: it would store None under the key.
CreateFailedNegativeCache(providers, key) == StoreHandle(providers, key, NoHandle)

\* except Exception: log and return None; the handle map is left as it was.
CreateFailed(providers, key) == providers

\* A get_web3 that never looked into the handle map.
IsCachedNever(providers, key) == FALSE

\* if chain_key in _WEB3_PROVIDERS: return _WEB3_PROVIDERS[chain_key]
IsCached(providers, key) == key \in DOMAIN providers

\* One whole get_web3 call run without interruption, as a request thread that
\* is alone runs it: [ret, rpc, mtime, providers, handles, failed].
get_web3(chain_key, createOk) ==
    LET rl == reload_rpc_config_if_changed
        base == [ret |-> NoHandle, rpc |-> rl.rpc, mtime |-> rl.mtime,
                 providers |-> WEB3_PROVIDERS, handles |-> handles,
                 failed |-> failedKeys]
        w3 == NewHandle(chain_key, rl.rpc)
    IN  IF chain_key \notin DOMAIN rl.rpc THEN base
        ELSE IF IsCached(WEB3_PROVIDERS, chain_key)
             THEN [base EXCEPT !.ret = WEB3_PROVIDERS[chain_key]]
        ELSE IF createOk
             THEN [base EXCEPT !.ret = w3,
                               !.providers = StoreHandle(WEB3_PROVIDERS, chain_key, w3),
                               !.handles = handles \cup {w3}]
        ELSE [base EXCEPT !.providers = CreateFailed(WEB3_PROVIDERS, chain_key),
                          !.failed = failedKeys \cup {chain_key}]

(***************************************************************************)
(* get_web3 as the worker threads run it: each thread takes the steps of   *)
(* app.py:214, 218-221, 223-224 and 225-226 one at a time, and the other   *)
(* threads run between them.                                               *)
(***************************************************************************)
W3Keys == {"bsc", "zksync"}

IdleThread ==
    [pc |-> "idle", key |-> None, afterFailure |-> FALSE, known |-> FALSE,
     hit |-> FALSE, attempted |-> FALSE, failed |-> FALSE, seen |-> NoHandle, w3 |-> NoHandle,
     ret |-> NoHandle]

\* A request thread enters get_web3(key).
W3Call(t, key) ==
    /\ thr[t].pc = "idle"
    /\ thr' = [thr EXCEPT ![t] = [IdleThread EXCEPT !.pc = "reload", !.key = key,
                                                     !.afterFailure = key \in failedKeys]]
    /\ UNCHANGED <<registryVars, configVars, cacheVars, providerVars, now, cm, call>>

\* app.py:213-216
W3Reload(t) ==
    /\ thr[t].pc = "reload"
    /\ RPC_URLS' = reload_rpc_config_if_changed.rpc
    /\ CHAIN_CONFIG_MTIME' = reload_rpc_config_if_changed.mtime
    /\ thr' = [thr EXCEPT ![t].pc = "check"]
    /\ UNCHANGED <<WEB3_PROVIDERS, handles, failedKeys, configVars, cacheVars,
                   providerVars, now, cm, call>>

\* app.py:218-221
W3Check(t) ==
    /\ thr[t].pc = "check"
    /\ thr' = [thr EXCEPT ![t] =
          IF thr[t].key \notin DOMAIN RPC_URLS
          THEN [@ EXCEPT !.pc = "ret", !.ret = NoHandle]
          ELSE IF IsCached(WEB3_PROVIDERS, thr[t].key)
               THEN [@ EXCEPT !.pc = "ret", !.known = TRUE, !.hit = TRUE,
                              !.seen = WEB3_PROVIDERS[thr[t].key],
                              !.ret = WEB3_PROVIDERS[thr[t].key]]
               ELSE [@ EXCEPT !.pc = "create", !.known = TRUE]]
    /\ UNCHANGED <<registryVars, configVars, cacheVars, providerVars, now, cm, call>>

\* app.py:222-224 and 227-229: HTTPProvider(...) and Web3(...) succeed or raise.
W3Create(t) ==
    /\ thr[t].pc = "create"
    /\ \/ /\ Cardinality(handles) < MaxCreated
          /\ handles' = handles \cup {NewHandle(thr[t].key, RPC_URLS)}
          /\ thr' = [thr EXCEPT ![t].pc = "store", ![t].attempted = TRUE,
                                ![t].w3 = NewHandle(thr[t].key, RPC_URLS)]
          /\ UNCHANGED <<WEB3_PROVIDERS, failedKeys>>
       \/ /\ WEB3_PROVIDERS' = CreateFailed(WEB3_PROVIDERS, thr[t].key)
          /\ failedKeys' = failedKeys \cup {thr[t].key}
          /\ thr' = [thr EXCEPT ![t].pc = "ret", ![t].attempted = TRUE,
                                ![t].failed = TRUE, ![t].ret = NoHandle]
          /\ UNCHANGED handles
    /\ UNCHANGED <<RPC_URLS, CHAIN_CONFIG_MTIME, configVars, cacheVars,
                   providerVars, now, cm, call>>

\* app.py:225-226
W3Store(t) ==
    /\ thr[t].pc = "store"
    /\ WEB3_PROVIDERS' = StoreHandle(WEB3_PROVIDERS, thr[t].key, thr[t].w3)
    /\ thr' = [thr EXCEPT ![t].pc = "ret", ![t].ret = thr[t].w3]
    /\ UNCHANGED <<RPC_URLS, CHAIN_CONFIG_MTIME, handles, failedKeys, configVars,
                   cacheVars, providerVars, now, cm, call>>

\* The caller takes the returned value; the thread is free for the next request.
W3Return(t) ==
    /\ thr[t].pc = "ret"
    /\ thr' = [thr EXCEPT ![t] = IdleThread]
    /\ UNCHANGED <<registryVars, configVars, cacheVars, providerVars, now, cm, call>>

\* Somebody rewrites the chains file: new text, new mtime.
FileTexts ==
    {MalformedText, MapText([k \in {"zksync"} |-> "file"]),
     MapText([k \in {"bsc"} |-> "file2"])}

EditChainsFile ==
    /\ CHAIN_CONFIG_PATH # None
    /\ chainsFile.mtime <= MaxMtime
    /\ \E txt \in FileTexts :
          chainsFile' = [mtime |-> chainsFile.mtime + 1, text |-> txt]
    /\ UNCHANGED <<registryVars, CHAIN_CONFIG_JSON, CHAIN_CONFIG_PATH, cacheVars,
                   providerVars, now, thr, cm, call>>

(***************************************************************************)
(* Strings.  TLC cannot order or edit strings, so the two string functions *)
(* the code uses are tabulated over the strings of the model: sorted()     *)
(* orders by code point (StrRank lists the strings in that order) and      *)
(* str.strip() removes the blanks around a coin id.                        *)
(***************************************************************************)
StrRank(x) ==
    CASE x = "" -> 0
      [] x = " usd-coin " -> 1
      [] x = "binancecoin" -> 2
      [] x = "bitcoin" -> 3
      [] x = "ethereum" -> 4
      [] x = "solana" -> 5
      [] x = "usd-coin" -> 6

strip(x) == IF x = " usd-coin " THEN "usd-coin" ELSE x

Range(q) == {q[i] : i \in 1..Len(q)}

RECURSIVE Insert(_, _)
Insert(x, q) ==
    IF q = <<>> THEN <<x>>
    ELSE IF StrRank(x) < StrRank(Head(q)) THEN <<x>> \o q
    ELSE <<Head(q)>> \o Insert(x, Tail(q))

\* sorted(ids)
RECURSIVE sorted(_)
sorted(ids) == IF ids = <<>> THEN <<>> ELSE Insert(Head(ids), sorted(Tail(ids)))

(***************************************************************************)
(* The market provider (CoinGecko), as the code sees it.  A quote is        *)
(* [id, current_price]; the provider lists the coins of BasePrice and       *)
(* answers /coins/markets with their quotes by market capitalisation.      *)
(* A request ends "ok", "empty" (a valid answer that lists nothing) or     *)
(* "fail" (timeout, HTTP error status, unparsable body).                   *)
(***************************************************************************)
ListedCoins == {"bitcoin", "ethereum", "usd-coin", "binancecoin", "solana"}
MarketCapOrder == <<"bitcoin", "ethereum", "usd-coin", "binancecoin", "solana">>

BasePrice(id) ==
    CASE id = "bitcoin" -> 5
      [] id = "ethereum" -> 3
      [] id = "binancecoin" -> 2
      [] id = "solana" -> 2
      [] id = "usd-coin" -> 1

Quote(id) == [id |-> id, current_price |-> BasePrice(id) + cgRev]

RECURSIVE QuotesOf(_, _)
QuotesOf(order, wanted) ==
    IF order = <<>> THEN <<>>
    ELSE IF Head(order) \in wanted THEN <<Quote(Head(order))>> \o QuotesOf(Tail(order), wanted)
    ELSE QuotesOf(Tail(order), wanted)

\* GET /coins/markets?ids=<key>
ProviderMarkets(key) == QuotesOf(MarketCapOrder, Range(key))

MarketOutcomes == {"ok", "empty", "fail"}
DetailOutcomes == {"ok", "fail"}

(***************************************************************************)
(* cached_markets (app.py:234-259).  The key ",".join(sorted(ids)) is the  *)
(* sorted list itself: no coin id of the model holds a comma.              *)
(***************************************************************************)
\* A cache key built without sorting.
MarketsKeyUnsorted(ids) == ids

MarketsKey(ids) == sorted(ids)

\* A freshness test that still serves an entry whose age equals the TTL.
IsFreshInclusive(entry, t, ttl) == t - entry.ts <= ttl

\* now - entry["ts"] < ttl
IsFresh(entry, t, ttl) == t - entry.ts < ttl

CachePut(cache, key, entry) ==
    [k \in (DOMAIN cache) \cup {key} |-> IF k = key THEN entry ELSE cache[k]]

\* [ret, cache, upstream]: the value returned, _MARKETS_CACHE afterwards, and
\* whether requests.get was called.
cached_markets(ids, outcome) ==
    LET key == MarketsKey(ids)
        hit == /\ key \in DOMAIN MARKETS_CACHE
               /\ IsFresh(MARKETS_CACHE[key], now, CACHE_TTL)
        data == IF outcome = "ok" THEN ProviderMarkets(key) ELSE <<>>
    IN  IF ids = <<>>
        THEN [ret |-> <<>>, cache |-> MARKETS_CACHE, upstream |-> FALSE]
        ELSE IF hit
        THEN [ret |-> MARKETS_CACHE[key].data, cache |-> MARKETS_CACHE,
              upstream |-> FALSE]
        ELSE IF outcome = "fail"
        THEN [ret |-> <<>>, cache |-> MARKETS_CACHE, upstream |-> TRUE]
        ELSE [ret |-> data,
              cache |-> CachePut(MARKETS_CACHE, key, [ts |-> now, data |-> data]),
              upstream |-> TRUE]

(***************************************************************************)
(* cached_coin_detail (app.py:261-279).  The detail of a coin is           *)
(* [id, platforms, last_updated]; platforms is the JSON object as the      *)
(* sequence of its <<platform, address>> members, in the provider's order. *)
(***************************************************************************)
NoDetail == [id |-> None, platforms |-> <<>>, last_updated |-> 0]

\* GET /coins/<coin_id>: 404 for a coin the provider does not know.
ProviderDetail(coin_id) ==
    IF coin_id \in DOMAIN cgPlatforms
    THEN [id |-> coin_id, platforms |-> cgPlatforms[coin_id], last_updated |-> cgRev]
    ELSE NoDetail

\* [ret, cache, upstream]
cached_coin_detail(coin_id, outcome) ==
    LET hit == /\ coin_id \in DOMAIN COIN_DETAIL_CACHE
               /\ IsFresh(COIN_DETAIL_CACHE[coin_id], now, COIN_DETAIL_TTL)
        data == ProviderDetail(coin_id)
    IN  IF hit
        THEN [ret |-> COIN_DETAIL_CACHE[coin_id].data, cache |-> COIN_DETAIL_CACHE,
              upstream |-> FALSE]
        ELSE IF outcome = "fail" \/ data = NoDetail
        THEN [ret |-> NoDetail, cache |-> COIN_DETAIL_CACHE, upstream |-> TRUE]
        ELSE [ret |-> data,
              cache |-> CachePut(COIN_DETAIL_CACHE, coin_id, [ts |-> now, data |-> data]),
              upstream |-> TRUE]

(***************************************************************************)
(* find_contract_for_coin_id (app.py:281-294).                             *)
(***************************************************************************)
NotFound == [contract |-> None, platform |-> None]

\* A preference list that tries polygon-pos before ethereum.
preferPolygonFirst ==
    <<"polygon-pos", "ethereum", "binance-smart-chain", "avalanche", "arbitrum-one",
      "optimistic-ethereum">>

prefer ==
    <<"ethereum", "binance-smart-chain", "polygon-pos", "avalanche", "arbitrum-one",
      "optimistic-ethereum">>

\* platforms.get(p)
PlatformsGet(platforms, p) ==
    IF \E i \in 1..Len(platforms) : platforms[i][1] = p
    THEN platforms[CHOOSE i \in 1..Len(platforms) : platforms[i][1] = p][2]
    ELSE None

\* if val:
Truthy(val) == val # None /\ val # ""

\* for p in prefer: ... return {"contract": val, "platform": p}
RECURSIVE FirstPreferred(_, _)
FirstPreferred(platforms, order) ==
    IF order = <<>> THEN NotFound
    ELSE IF Truthy(PlatformsGet(platforms, Head(order)))
    THEN [contract |-> PlatformsGet(platforms, Head(order)), platform |-> Head(order)]
    ELSE FirstPreferred(platforms, Tail(order))

\* for p, val in platforms.items(): if val: return ...
RECURSIVE FirstPresent(_)
FirstPresent(platforms) ==
    IF platforms = <<>> THEN NotFound
    ELSE IF Truthy(Head(platforms)[2])
    THEN [contract |-> Head(platforms)[2], platform |-> Head(platforms)[1]]
    ELSE FirstPresent(Tail(platforms))

\* The part of find_contract_for_coin_id after the detail lookup.
ResolveContract(detail) ==
    IF detail = NoDetail THEN NotFound
    ELSE IF FirstPreferred(detail.platforms, prefer) # NotFound
    THEN FirstPreferred(detail.platforms, prefer)
    ELSE FirstPresent(detail.platforms)

\* [ret, detail, cache, upstream]
find_contract_for_coin_id(coin_id, outcome) ==
    LET d == cached_coin_detail(coin_id, outcome)
    IN  [ret |-> ResolveContract(d.ret), detail |-> d.ret, cache |-> d.cache,
         upstream |-> d.upstream]

(***************************************************************************)
(* Direct lookups (the /api/coins/markets route, app.py:521-528, and the   *)
(* resolver's callers), with a log cm of the last lookup.  cm.fetched and  *)
(* cm.detailed remember, per bag of ids and per coin, the last answer the  *)
(* provider gave: [ts, ids, data].  Of a lookup cm keeps the age of that   *)
(* answer, whether the lookup returned it (servedPrior), whether it        *)
(* returned what the provider holds at that moment (servedLive), and       *)
(* whether that answer was fetched under another ordering of the ids.      *)
(***************************************************************************)
BagOf(ids) == [x \in Range(ids) |-> Cardinality({i \in 1..Len(ids) : ids[i] = x})]

NoAnswer == [ts |-> NoneNum, ids |-> <<>>, data |-> <<>>]
NoDetailAnswer == [ts |-> NoneNum, data |-> NoDetail]

Remembered(log, k, none) == IF k \in DOMAIN log THEN log[k] ELSE none

\* Age of a remembered answer at time t; None when there is none.
AgeOf(answer, t) == IF answer.ts = NoneNum THEN NoneNum ELSE t - answer.ts

NoLookup ==
    [op |-> "none", ids |-> <<>>, coin |-> None, outcome |-> None,
     upstream |-> FALSE, ret |-> <<>>, detail |-> NoDetail, found |-> NotFound,
     age |-> NoneNum, servedPrior |-> FALSE, servedLive |-> FALSE,
     otherOrder |-> FALSE,
     fetched |-> [k \in {} |-> NoAnswer], detailed |-> [k \in {} |-> NoDetailAnswer]]

MarketIdLists == {<<>>, <<"bitcoin", "ethereum">>, <<"ethereum", "bitcoin">>}

DetailCoins == {"usd-coin"}

CallCachedMarkets(ids, outcome) ==
    LET r == cached_markets(ids, outcome)
        answered == r.upstream /\ outcome # "fail"
        prior == Remembered(cm.fetched, BagOf(ids), NoAnswer)
    IN  /\ MARKETS_CACHE' = r.cache
        /\ cm' = [cm EXCEPT
              !.op = "markets", !.ids = ids, !.outcome = outcome,
              !.upstream = r.upstream, !.ret = r.ret,
              !.age = AgeOf(prior, now),
              !.servedPrior = (prior # NoAnswer /\ r.ret = prior.data),
              !.servedLive = (r.ret = QuotesOf(MarketCapOrder, Range(ids))),
              !.otherOrder = (prior # NoAnswer /\ prior.ids # ids),
              !.fetched = IF answered
                          THEN CachePut(cm.fetched, BagOf(ids),
                                        [ts |-> now, ids |-> ids, data |-> r.ret])
                          ELSE cm.fetched]
        /\ UNCHANGED <<registryVars, configVars, COIN_DETAIL_CACHE, providerVars,
                       now, thr, call>>

CallCachedCoinDetail(coin_id, outcome) ==
    LET r == cached_coin_detail(coin_id, outcome)
        answered == r.upstream /\ r.ret # NoDetail
        prior == Remembered(cm.detailed, coin_id, NoDetailAnswer)
    IN  /\ COIN_DETAIL_CACHE' = r.cache
        /\ cm' = [cm EXCEPT
              !.op = "detail", !.coin = coin_id, !.outcome = outcome,
              !.upstream = r.upstream, !.detail = r.ret,
              !.age = AgeOf(prior, now),
              !.servedPrior = (prior # NoDetailAnswer /\ r.ret = prior.data),
              !.servedLive = (r.ret = ProviderDetail(coin_id)),
              !.detailed = IF answered
                           THEN CachePut(cm.detailed, coin_id,
                                         [ts |-> now, data |-> r.ret])
                           ELSE cm.detailed]
        /\ UNCHANGED <<registryVars, configVars, MARKETS_CACHE, providerVars,
                       now, thr, call>>

CallFindContract(coin_id, outcome) ==
    LET r == find_contract_for_coin_id(coin_id, outcome)
    IN  /\ COIN_DETAIL_CACHE' = r.cache
        /\ cm' = [cm EXCEPT
              !.op = "resolve", !.coin = coin_id, !.outcome = outcome,
              !.upstream = r.upstream, !.detail = r.detail, !.found = r.ret]
        /\ UNCHANGED <<registryVars, configVars, MARKETS_CACHE, providerVars,
                       now, thr, call>>

\* The clock, observed at the instants where an age can cross a TTL: one
\* second before and at each multiple of the markets TTL, up to the first
\* such multiple and again from the coin-detail TTL on.
Instants ==
    {t \in 1..MaxTime :
        /\ t % CACHE_TTL \in {0, CACHE_TTL - 1}
        /\ (t <= CACHE_TTL \/ t >= COIN_DETAIL_TTL - 1)}

Tick ==
    /\ \E t \in Instants :
          /\ t > now
          /\ \A u \in Instants : u > now => t <= u
          /\ now' = t
    /\ UNCHANGED <<registryVars, configVars, cacheVars, providerVars, thr, cm, call>>

\* The provider's data moves: new prices, new last_updated.
ProviderUpdate ==
    /\ cgRev' = 1 - cgRev
    /\ UNCHANGED <<registryVars, configVars, cacheVars, cgPlatforms, now, thr, cm, call>>

(***************************************************************************)
(* Balance helpers (app.py:299-344).  The chain answers a balance query     *)
(* ("ok") or the query fails ("fail": bad address, network error, missing  *)
(* contract method); a helper returns None when it has no handle or the    *)
(* query fails.  Balances on chain are fixed numbers.                      *)
(***************************************************************************)
RpcOutcomes == {"ok", "fail"}

NativeBalanceOf(chain_key) == IF chain_key = "bsc" THEN 3 ELSE 2
TokenBalanceOf(chain_key, contract) == IF chain_key = "ethereum" THEN 5 ELSE 4

\* The registry when get_web3 is not called.
NoWeb3Call ==
    [ret |-> NoHandle, rpc |-> RPC_URLS, mtime |-> CHAIN_CONFIG_MTIME,
     providers |-> WEB3_PROVIDERS, handles |-> handles, failed |-> failedKeys]

\* [ret, web3]: the balance or None, and the get_web3 call made for it.
get_native_evm_balance(chain_key, createOk, rpc) ==
    LET g == get_web3(chain_key, createOk)
    IN  [ret |-> IF g.ret = NoHandle \/ rpc = "fail" THEN NoneNum
                 ELSE NativeBalanceOf(chain_key),
         web3 |-> g]

get_erc20_balance(chain_key, contract_address, createOk, rpc) ==
    LET g == get_web3(chain_key, createOk)
    IN  [ret |-> IF g.ret = NoHandle \/ rpc = "fail" THEN NoneNum
                 ELSE TokenBalanceOf(chain_key, contract_address),
         web3 |-> g]

\* Without the solana package every call returns None, as does a failed call.
get_solana_balance(rpc) == IF rpc = "fail" THEN NoneNum ELSE NativeBalanceOf("solana")

(***************************************************************************)
(* compute_balance_for_chain (app.py:349-516), one step per block and per  *)
(* loop iteration.  A line keeps the fields that carry identity and value: *)
(* shape ("native": symbol/balance/price/value only; "token": the token    *)
(* keys), coin_id, contract, platform, chain, balance, usd_price,          *)
(* usd_value.  Symbol, name, logo and price change are left out.           *)
(***************************************************************************)
NoLine ==
    [shape |-> None, coin_id |-> None, contract |-> None, platform |-> None,
     chain |-> None, balance |-> 0, usd_price |-> NoneNum, usd_value |-> 0]

\* x or 0
Or0(x) == IF x = NoneNum THEN 0 ELSE x

NativeLine(bal, price) ==
    [NoLine EXCEPT !.shape = "native", !.balance = Or0(bal), !.usd_price = price,
                   !.usd_value = Or0(bal) * Or0(price)]

\* for cid, ch in NATIVE_COIN_TO_CHAIN.items(): if ch == chain: ...; break
NativeCoinIdOf(chain) ==
    IF \E c \in NativeCoinIds : NATIVE_COIN_TO_CHAIN[c] = chain
    THEN CHOOSE c \in NativeCoinIds : NATIVE_COIN_TO_CHAIN[c] = chain
    ELSE None

\* for pf, ck in PLATFORM_TO_CHAIN_KEY.items(): if ck == tchain: ...; break
PlatformOfChain(tchain) ==
    IF \E pf \in PlatformKeys : PLATFORM_TO_CHAIN_KEY[pf] = tchain
    THEN CHOOSE pf \in PlatformKeys : PLATFORM_TO_CHAIN_KEY[pf] = tchain
    ELSE None

\* PLATFORM_TO_CHAIN_KEY.get(platform)
ChainKeyOfPlatform(platform) ==
    IF platform \in PlatformKeys THEN PLATFORM_TO_CHAIN_KEY[platform] ELSE None

\* markets[0]["current_price"] of a non-empty answer, else None
FirstPrice(data) == IF data = <<>> THEN NoneNum ELSE data[1].current_price

\* markets.get(coin_id)
NoQuote == [id |-> None, current_price |-> 0]
MarketsGet(data, coin_id) ==
    IF \E k \in 1..Len(data) : data[k].id = coin_id
    THEN data[CHOOSE k \in 1..Len(data) : data[k].id = coin_id]
    ELSE NoQuote

\* A coin-id list that keeps every occurrence.
DedupeNone(q) == q

\* list(dict.fromkeys(q)): the first occurrence of each element, in order.
RECURSIVE Dedupe(_)
Dedupe(q) ==
    IF q = <<>> THEN <<>>
    ELSE LET front == Dedupe(SubSeq(q, 1, Len(q) - 1))
             last == q[Len(q)]
         IN  IF last \in Range(front) THEN front ELSE Append(front, last)

\* [str(cid).strip() for cid in (coin_ids or []) if cid]
RECURSIVE StripAll(_)
StripAll(q) ==
    IF q = <<>> THEN <<>>
    ELSE IF Head(q) = "" THEN StripAll(Tail(q))
    ELSE <<strip(Head(q))>> \o StripAll(Tail(q))

\* coin_id in NATIVE_COIN_TO_CHAIN and NATIVE_COIN_TO_CHAIN[coin_id] == chain
IsNativeTo(coin_id, chain) ==
    coin_id \in NativeCoinIds /\ NATIVE_COIN_TO_CHAIN[coin_id] = chain

\* A result list that grows at the front.
PrependLine(lines, line) == <<line>> \o lines

\* result["tokens"].append(line)
AppendLine(lines, line) == Append(lines, line)

\* for tk in result["tokens"]: total_usd += float(tk.get("usd_value") or 0.0)
RECURSIVE AddTokenValues(_, _)
AddTokenValues(total, lines) ==
    IF lines = <<>> THEN total
    ELSE AddTokenValues(total + Head(lines).usd_value, Tail(lines))

\* A total that leaves the native line out.
TotalWithoutNative(native, lines) == AddTokenValues(0, lines)

\* app.py:506-514
TotalUsd(native, lines) ==
    AddTokenValues(IF native # NoLine /\ native.usd_value # 0
                   THEN native.usd_value ELSE 0, lines)

(***************************************************************************)
(* The requests: the chains, coin ids and explicit tokens a caller sends.  *)
(* An entry of tokens is a dict with an optional chain and contract, or    *)
(* something that is not a dict (a bare contract string).                  *)
(***************************************************************************)
RequestChains == {"ethereum", "bsc", "solana", "dogechain"}

RawCoinIds == {"ethereum", "usd-coin", " usd-coin "}

TokenEntries ==
    {[dict |-> TRUE, chain |-> None, contract |-> "0xtoken"],
     [dict |-> TRUE, chain |-> "polygon", contract |-> "0xother"],
     [dict |-> TRUE, chain |-> None, contract |-> None],
     [dict |-> FALSE, chain |-> None, contract |-> "0xtoken"]}

SeqsUpTo(S, n) == UNION {[1..k -> S] : k \in 0..n}

\* GET /coins/<platform>/contract/<address>: the usd price, when listed.
ContractPrice(platform, contract) == IF platform = "polygon-pos" THEN NoneNum ELSE 2

EnrichOutcomes == {"ok", "not_ok", "fail"}

IdleCall ==
    [pc |-> "idle", chain |-> None, coin_ids |-> <<>>, tokens |-> <<>>,
     ids |-> <<>>, markets |-> <<>>, i |-> 0, nativeFetch |-> None,
     native |-> NoLine, lines |-> <<>>, errors |-> <<>>, total_usd |-> NoneNum]

\* The registry after the get_web3 call g.
SetRegistry(g) ==
    /\ RPC_URLS' = g.rpc
    /\ CHAIN_CONFIG_MTIME' = g.mtime
    /\ WEB3_PROVIDERS' = g.providers
    /\ handles' = g.handles
    /\ failedKeys' = g.failed

\* app.py:349-359
Start(chain, coin_ids, tokens) ==
    /\ call.pc = "idle"
    /\ call' = [IdleCall EXCEPT !.pc = "native", !.chain = chain,
                                !.coin_ids = coin_ids, !.tokens = tokens]
    /\ UNCHANGED <<registryVars, configVars, cacheVars, providerVars, now, thr, cm>>

\* app.py:361-401
NativeStep(createOk, rpc, mo) ==
    /\ call.pc = "native"
    /\ LET evm == call.chain \in DOMAIN RPC_URLS /\ call.chain # "solana"
           sol == ~evm /\ call.chain = "solana"
           b == IF evm THEN get_native_evm_balance(call.chain, createOk, rpc)
                ELSE [ret |-> IF sol THEN get_solana_balance(rpc) ELSE NoneNum,
                      web3 |-> NoWeb3Call]
           native_coin_id == IF sol THEN "solana" ELSE NativeCoinIdOf(call.chain)
           m == IF (evm \/ sol) /\ native_coin_id # None
                THEN cached_markets(<<native_coin_id>>, mo)
                ELSE [ret |-> <<>>, cache |-> MARKETS_CACHE, upstream |-> FALSE]
       IN  /\ SetRegistry(b.web3)
           /\ MARKETS_CACHE' = m.cache
           /\ call' = [call EXCEPT
                 !.pc = "coin_ids",
                 !.nativeFetch = IF ~(evm \/ sol) THEN None
                                 ELSE IF b.ret = NoneNum THEN "unavailable" ELSE "ok",
                 !.native = NativeLine(b.ret, FirstPrice(m.ret))]
    /\ UNCHANGED <<configVars, COIN_DETAIL_CACHE, providerVars, now, thr, cm>>

\* app.py:403-410
CoinIdsStep(mo) ==
    /\ call.pc = "coin_ids"
    /\ LET ids == Dedupe(StripAll(call.coin_ids))
           m == cached_markets(ids, mo)
       IN  /\ MARKETS_CACHE' = m.cache
           /\ call' = [call EXCEPT !.pc = "coins", !.ids = ids, !.markets = m.ret,
                                   !.i = 1]
    /\ UNCHANGED <<registryVars, configVars, COIN_DETAIL_CACHE, providerVars, now,
                   thr, cm>>

\* app.py:412-454, one iteration; the loop ends when the ids are used up.
CoinStep(do, createOk, rpc) ==
    /\ call.pc = "coins"
    /\ IF call.i > Len(call.ids)
       THEN /\ call' = [call EXCEPT !.pc = "tokens", !.i = 1]
            /\ UNCHANGED <<registryVars, COIN_DETAIL_CACHE>>
       ELSE LET coin_id == call.ids[call.i]
                skip == IsNativeTo(coin_id, call.chain)
                f == find_contract_for_coin_id(coin_id, do)
                found == f.ret # NotFound
                chain_key == ChainKeyOfPlatform(f.ret.platform)
                reach == found /\ chain_key # None /\ chain_key \in DOMAIN RPC_URLS
                b == IF ~skip /\ reach
                     THEN get_erc20_balance(chain_key, f.ret.contract, createOk, rpc)
                     ELSE [ret |-> NoneNum, web3 |-> NoWeb3Call]
                m == MarketsGet(call.markets, coin_id)
                withContract ==
                    [NoLine EXCEPT !.shape = "token", !.coin_id = coin_id,
                                   !.contract = f.ret.contract,
                                   !.platform = f.ret.platform, !.chain = chain_key,
                                   !.balance = Or0(b.ret),
                                   !.usd_price = m.current_price,
                                   !.usd_value = Or0(b.ret) * m.current_price]
                withoutContract ==
                    [NoLine EXCEPT !.shape = "token", !.coin_id = coin_id,
                                   !.usd_price = m.current_price]
            IN  /\ COIN_DETAIL_CACHE' = IF skip THEN COIN_DETAIL_CACHE ELSE f.cache
                /\ SetRegistry(b.web3)
                /\ call' =
                      IF skip THEN [call EXCEPT !.i = call.i + 1]
                      ELSE IF found
                      THEN [call EXCEPT !.i = call.i + 1,
                                        !.lines = AppendLine(call.lines, withContract)]
                      ELSE IF m = NoQuote
                      THEN [call EXCEPT !.pc = "raised"]
                      ELSE [call EXCEPT !.i = call.i + 1,
                                        !.lines = AppendLine(call.lines, withoutContract)]
    /\ UNCHANGED <<configVars, MARKETS_CACHE, providerVars, now, thr, cm>>

\* app.py:456-503, one iteration; the loop ends when the tokens are used up.
TokenStep(createOk, rpc, eo) ==
    /\ call.pc = "tokens"
    /\ IF call.i > Len(call.tokens)
       THEN /\ call' = [call EXCEPT !.pc = "totals"]
            /\ UNCHANGED registryVars
       ELSE LET t == call.tokens[call.i]
                tchain == IF t.chain # None THEN t.chain ELSE call.chain
                run == t.dict /\ t.contract # None
                b == IF run THEN get_erc20_balance(tchain, t.contract, createOk, rpc)
                     ELSE [ret |-> NoneNum, web3 |-> NoWeb3Call]
                platform_for_cg == PlatformOfChain(tchain)
                usd_price == IF platform_for_cg # None /\ eo = "ok"
                             THEN ContractPrice(platform_for_cg, t.contract)
                             ELSE NoneNum
                line == [NoLine EXCEPT !.shape = "token", !.contract = t.contract,
                                       !.chain = tchain, !.balance = Or0(b.ret),
                                       !.usd_price = usd_price,
                                       !.usd_value = Or0(b.ret) * Or0(usd_price)]
            IN  /\ SetRegistry(b.web3)
                /\ call' =
                      IF ~t.dict
                      THEN [call EXCEPT !.i = call.i + 1,
                                        !.errors = Append(call.errors, "token_error")]
                      ELSE IF t.contract = None
                      THEN [call EXCEPT !.i = call.i + 1]
                      ELSE [call EXCEPT !.i = call.i + 1,
                                        !.lines = AppendLine(call.lines, line)]
    /\ UNCHANGED <<configVars, cacheVars, providerVars, now, thr, cm>>

\* app.py:505-516
TotalsStep ==
    /\ call.pc = "totals"
    /\ call' = [call EXCEPT !.pc = "done",
                            !.total_usd = TotalUsd(call.native, call.lines)]
    /\ UNCHANGED <<registryVars, configVars, cacheVars, providerVars, now, thr, cm>>

(***************************************************************************)
(* The state after the module body has run (app.py:62-138).                *)
(***************************************************************************)

EmptyCache == [k \in {} |-> [ts |-> 0, data |-> <<>>]]
NoProviders == [k \in {} |-> NoHandle]
NoFile == [mtime |-> 0, text |-> Absent]

InitProgram ==
    /\ RPC_URLS = DefaultRpcUrls
    /\ WEB3_PROVIDERS = NoProviders
    /\ CHAIN_CONFIG_MTIME = NoneNum
    /\ MARKETS_CACHE = EmptyCache
    /\ COIN_DETAIL_CACHE = EmptyCache
    /\ handles = {}
    /\ failedKeys = {}
    /\ thr = [t \in Threads |-> IdleThread]
    /\ cm = NoLookup
    /\ call = IdleCall
    /\ now = 0

\* Any deployment: the environment variable and the chains file set or not.
EnvTexts == {Absent, MapText([k \in {"bsc"} |-> "env"])}

InitConfig ==
    /\ CHAIN_CONFIG_JSON \in EnvTexts
    /\ CHAIN_CONFIG_PATH \in {None, "chains.json"}
    /\ chainsFile \in
          IF CHAIN_CONFIG_PATH = None THEN {NoFile}
          ELSE {[mtime |-> 1, text |-> txt] : txt \in FileTexts}

\* The default deployment: no CHAIN_CONFIG_JSON, no chains file.
InitNoConfig ==
    /\ CHAIN_CONFIG_JSON = Absent
    /\ CHAIN_CONFIG_PATH = None
    /\ chainsFile = NoFile

\* The provider's platform maps of the coins the requests name.
UsdCoinPlatforms ==
    <<<<"polygon-pos", "0xusdc-polygon">>, <<"ethereum", "0xusdc-ethereum">>>>

KnownPlatforms ==
    [c \in {"ethereum", "usd-coin"} |->
        IF c = "usd-coin" THEN UsdCoinPlatforms ELSE <<<<"", "">>>>]

InitProvider ==
    /\ cgRev = 0
    /\ cgPlatforms = KnownPlatforms

InitWeb3 ==
    /\ InitProgram
    /\ InitConfig
    /\ InitProvider

NextWeb3 ==
    \/ \E t \in Threads, key \in W3Keys : W3Call(t, key)
    \/ \E t \in Threads : W3Reload(t)
    \/ \E t \in Threads : W3Check(t)
    \/ \E t \in Threads : W3Create(t)
    \/ \E t \in Threads : W3Store(t)
    \/ \E t \in Threads : W3Return(t)
    \/ EditChainsFile

SpecWeb3 == InitWeb3 /\ [][NextWeb3]_vars

(***************************************************************************)
(* get_web3 in a process that serves its requests on one thread: the calls *)
(* run one after the other, and the chains file is edited between them.    *)
(***************************************************************************)
OneThread == {CHOOSE t \in Threads : \A u \in Threads : t <= u}

NextOneThread ==
    \/ \E t \in OneThread, key \in W3Keys : W3Call(t, key)
    \/ \E t \in OneThread : W3Reload(t)
    \/ \E t \in OneThread : W3Check(t)
    \/ \E t \in OneThread : W3Create(t)
    \/ \E t \in OneThread : W3Store(t)
    \/ \E t \in OneThread : W3Return(t)
    \/ EditChainsFile

SpecOneThread == InitWeb3 /\ [][NextOneThread]_vars

(***************************************************************************)
(* One compute_balance_for_chain request in the default deployment.        *)
(***************************************************************************)
Init ==
    /\ InitProgram
    /\ InitNoConfig
    /\ InitProvider

\* The outcomes a step can meet.  A step that makes no upstream call meets
\* none, so it draws from a single value.  Handle creation is let fail for the
\* native balance; the token balance helpers meet the same failure as a
\* failed query.
Draw(needed, outcomes, idle) == IF needed THEN outcomes ELSE {idle}

NativeIsEvm == call.chain \in DOMAIN RPC_URLS /\ call.chain # "solana"
NativeCalls == call.pc = "native" /\ (NativeIsEvm \/ call.chain = "solana")
CoinCalls ==
    /\ call.pc = "coins" /\ call.i <= Len(call.ids)
    /\ ~IsNativeTo(call.ids[call.i], call.chain)
TokenCalls ==
    /\ call.pc = "tokens" /\ call.i <= Len(call.tokens)
    /\ call.tokens[call.i].dict /\ call.tokens[call.i].contract # None

Next ==
    \/ /\ call.pc = "idle"
       /\ \E chain \in RequestChains, coin_ids \in SeqsUpTo(RawCoinIds, MaxCoinIds),
             tokens \in SeqsUpTo(TokenEntries, MaxTokens) :
             Start(chain, coin_ids, tokens)
    \/ /\ call.pc = "native"
       /\ \E createOk \in Draw(NativeIsEvm, BOOLEAN, TRUE),
             rpc \in Draw(NativeCalls, RpcOutcomes, "ok"),
             mo \in Draw(NativeCalls, MarketOutcomes, "ok") :
             NativeStep(createOk, rpc, mo)
    \/ /\ call.pc = "coin_ids"
       /\ \E mo \in MarketOutcomes : CoinIdsStep(mo)
    \/ /\ call.pc = "coins"
       /\ \E do \in Draw(CoinCalls, DetailOutcomes, "ok"),
             rpc \in Draw(CoinCalls, RpcOutcomes, "ok") : CoinStep(do, TRUE, rpc)
    \/ /\ call.pc = "tokens"
       /\ \E rpc \in Draw(TokenCalls, RpcOutcomes, "ok"),
             eo \in Draw(TokenCalls, EnrichOutcomes, "ok") : TokenStep(TRUE, rpc, eo)
    \/ TotalsStep

Spec == Init /\ [][Next]_vars

(***************************************************************************)
(* The caches under direct lookups, with the clock and the provider moving. *)
(***************************************************************************)
InitCache ==
    /\ InitProgram
    /\ InitNoConfig
    /\ InitProvider

NextCache ==
    \/ \E ids \in MarketIdLists, o \in MarketOutcomes : CallCachedMarkets(ids, o)
    \/ \E c \in DetailCoins, o \in DetailOutcomes : CallCachedCoinDetail(c, o)
    \/ Tick
    \/ ProviderUpdate

SpecCache == InitCache /\ [][NextCache]_vars

(***************************************************************************)
(* The resolver over every platform map: each platform of ResolverPlatforms *)
(* is missing from the map, present with an empty address, or present with *)
(* its address, and the map lists them in either direction.                *)
(***************************************************************************)
ResolverPlatforms ==
    <<"tron", "optimistic-ethereum", "arbitrum-one", "avalanche", "polygon-pos",
      "binance-smart-chain", "ethereum", "fantom">>

AddressOn(p) ==
    CASE p = "ethereum" -> "0xc-ethereum"
      [] p = "binance-smart-chain" -> "0xc-bsc"
      [] p = "polygon-pos" -> "0xc-polygon"
      [] p = "avalanche" -> "0xc-avalanche"
      [] p = "arbitrum-one" -> "0xc-arbitrum"
      [] p = "optimistic-ethereum" -> "0xc-optimism"
      [] p = "fantom" -> "0xc-fantom"
      [] p = "tron" -> "Tc-tron"

RECURSIVE PlatformsFrom(_, _)
PlatformsFrom(order, f) ==
    IF order = <<>> THEN <<>>
    ELSE IF f[Head(order)] = "missing" THEN PlatformsFrom(Tail(order), f)
    ELSE <<<<Head(order), IF f[Head(order)] = "empty" THEN "" ELSE AddressOn(Head(order))>>>>
         \o PlatformsFrom(Tail(order), f)

Reverse(q) == [i \in 1..Len(q) |-> q[Len(q) + 1 - i]]

PlatformMaps ==
    {PlatformsFrom(order, f) :
        order \in {ResolverPlatforms, Reverse(ResolverPlatforms)},
        f \in [Range(ResolverPlatforms) -> {"missing", "empty", "address"}]}

InitResolver ==
    /\ InitProgram
    /\ InitNoConfig
    /\ cgRev = 0
    /\ \E pm \in PlatformMaps : cgPlatforms = [c \in DetailCoins |-> pm]

NextResolver ==
    \E c \in DetailCoins \cup {"ghostcoin"}, o \in DetailOutcomes : CallFindContract(c, o)

SpecResolver == InitResolver /\ [][NextResolver]_vars

(***************************************************************************)
(* Claims about compute_balance_for_chain, checked under Spec.             *)
(***************************************************************************)
RECURSIVE C1_SumOfValues(_)
C1_SumOfValues(lines) ==
    IF lines = <<>> THEN 0
    ELSE C1_SumOfValues(SubSeq(lines, 1, Len(lines) - 1)) + lines[Len(lines)].usd_value

\* C1: the returned total_usd is the usd_value of the native line (0 when the
\* line is absent or has no value) plus the sum of usd_value over tokens,
\* whatever the RPC endpoints and the market provider answered.
C1_TotalIsSumOfValues ==
    call.pc = "done" =>
       call.total_usd = (IF call.native = NoLine THEN 0 ELSE call.native.usd_value)
                        + C1_SumOfValues(call.lines)

\* C1 witness: a result whose native line and whose token lines both carry
\* value, and a result where every upstream call failed.
C1_Witness ==
    /\ call.pc = "done" /\ call.native.usd_value > 0
    /\ \E k \in 1..Len(call.lines) : call.lines[k].usd_value > 0
    /\ call.total_usd > call.native.usd_value

\* C2: compute_balance_for_chain never raises; it returns a result with a
\* native line, the tokens, the errors and total_usd.
C2_NeverRaises ==
    /\ call.pc # "raised"
    /\ call.pc = "done" => (call.native # NoLine /\ call.total_usd # NoneNum)

\* C3: when the native balance of a known EVM chain is unavailable, the result
\* has native.balance = 0 and errors holds a native_balance_error entry.
C3_UnavailableNativeIsReported ==
    (call.pc = "done" /\ call.chain \in DOMAIN RPC_URLS /\ call.chain # "solana"
        /\ call.nativeFetch = "unavailable")
       => /\ call.native.balance = 0
          /\ "native_balance_error" \in Range(call.errors)

\* C4: tokens holds at most one line per coin id and no line for a coin id
\* whose native chain is the chain of the request.
C4_OneLinePerCoinAndNoNative ==
    /\ \A a \in 1..Len(call.lines), b \in 1..Len(call.lines) :
          (a # b /\ call.lines[a].coin_id # None)
             => call.lines[a].coin_id # call.lines[b].coin_id
    /\ \A a \in 1..Len(call.lines) :
          ~(/\ call.lines[a].coin_id \in NativeCoinIds
            /\ NATIVE_COIN_TO_CHAIN[call.lines[a].coin_id] = call.chain)

\* C4 witness: the request named one coin twice (once padded with blanks) and
\* the result holds a single line for it; or it named the chain's native coin
\* beside another coin and the result holds a line for the other coin only.
C4_Witness ==
    /\ call.pc = "done" /\ Len(call.coin_ids) = 2 /\ call.tokens = <<>>
    /\ Len(call.lines) = 1 /\ call.lines[1].coin_id = "usd-coin"
    /\ call.coin_ids[1] # call.coin_ids[2]
    /\ strip(call.coin_ids[1]) = strip(call.coin_ids[2])

\* The coin ids that get a line: stripped, not empty, not native to the
\* chain, each at its first occurrence.
RECURSIVE C5_FirstSeen(_, _, _)
C5_FirstSeen(raw, chain, seen) ==
    IF raw = <<>> THEN <<>>
    ELSE LET id == strip(Head(raw))
             rest == C5_FirstSeen(Tail(raw), chain, seen \cup {id})
         IN  IF Head(raw) = "" \/ id \in seen THEN rest
             ELSE IF id \in NativeCoinIds /\ NATIVE_COIN_TO_CHAIN[id] = chain THEN rest
             ELSE <<id>> \o rest

\* The contracts of the explicit tokens that carry one, in input order.
RECURSIVE C5_Contracts(_)
C5_Contracts(tokens) ==
    IF tokens = <<>> THEN <<>>
    ELSE IF Head(tokens).dict /\ Head(tokens).contract # None
    THEN <<Head(tokens).contract>> \o C5_Contracts(Tail(tokens))
    ELSE C5_Contracts(Tail(tokens))

C5_IsDict(t) == t.dict

HandlesOf(key) == {h \in handles : h.key = key}

\* C9: get_web3 never propagates a failure.  A call for an unknown key and a
\* call whose handle creation fails return None; a failure stores nothing, so
\* the handle map only ever holds constructed handles; and a call that starts
\* after a failure for its key attempts the creation again: it returns None
\* only if the key is unknown or its own attempt failed too.
C9_FailureReturnsNoneAndIsRetried ==
    /\ \A k \in DOMAIN WEB3_PROVIDERS : WEB3_PROVIDERS[k] \in HandlesOf(k)
    /\ \A t \in Threads :
          thr[t].pc = "ret" =>
             /\ (~thr[t].known \/ thr[t].failed) => thr[t].ret = NoHandle
             /\ (thr[t].known /\ ~thr[t].hit) => thr[t].attempted
             /\ thr[t].ret = NoHandle =>
                   (~thr[t].known \/ (thr[t].attempted /\ thr[t].failed))

\* C9 witness: a call made after a failed creation for the same key attempted
\* the creation again and got a handle, while another failed call returns None.
C9_Witness ==
    \E t \in Threads, u \in Threads :
       /\ thr[t].pc = "ret" /\ thr[t].afterFailure /\ thr[t].attempted
       /\ thr[t].ret # NoHandle
       /\ thr[u].pc = "ret" /\ thr[u].failed /\ thr[u].ret = NoHandle
       /\ thr[u].key = thr[t].key

\* C10 as stated: at most one handle is ever created for a chain key, and all
\* callers for that key receive the same handle.
C10_Original ==
    /\ \A k \in W3Keys : Cardinality(HandlesOf(k)) <= 1
    /\ \A t \in Threads, u \in Threads :
          (thr[t].pc = "ret" /\ thr[u].pc = "ret" /\ thr[t].key = thr[u].key
              /\ thr[t].ret # NoHandle /\ thr[u].ret # NoHandle)
             => thr[t].ret = thr[u].ret

\* C10 amended: the handle map holds one handle per key, but creation is not
\* serialised.  Each thread that finds no cached handle creates its own and
\* returns it, so at most one handle per thread is ever created for a key; a
\* call that finds a cached handle returns that handle and creates nothing.
C10_AtMostOneHandlePerThread ==
    /\ \A k \in W3Keys : Cardinality(HandlesOf(k)) <= threads
    /\ \A k \in DOMAIN WEB3_PROVIDERS : WEB3_PROVIDERS[k] \in HandlesOf(k)
    /\ \A t \in Threads :
          (thr[t].pc = "ret" /\ thr[t].ret # NoHandle) =>
             IF thr[t].hit
             THEN thr[t].ret = thr[t].seen /\ ~thr[t].attempted
             ELSE thr[t].ret = thr[t].w3 /\ thr[t].w3 \in HandlesOf(thr[t].key)

\* C10 witness: two threads raced on one uncached key and each returns the
\* handle it created itself.
C10_Witness ==
    \E t \in Threads, u \in Threads :
       /\ t # u /\ thr[t].key = thr[u].key
       /\ thr[t].pc = "ret" /\ thr[u].pc = "ret"
       /\ ~thr[t].hit /\ ~thr[u].hit
       /\ thr[t].ret # NoHandle /\ thr[u].ret # NoHandle
       /\ thr[t].ret # thr[u].ret

(***************************************************************************)
(* Claims about the caches, checked under SpecCache.                       *)
(***************************************************************************)
\* C6: when the provider answered a markets lookup for some ordering of a
\* non-empty id set less than the TTL ago, a lookup with any ordering of the
\* same ids returns that answer and issues no upstream request.
C6_OrderIndependentHit ==
    (cm.op = "markets" /\ cm.ids # <<>> /\ cm.age # NoneNum /\ cm.age < CACHE_TTL)
       => (cm.servedPrior /\ ~cm.upstream)

\* C6 witness: a lookup of two ids was served, without an upstream request,
\* the quotes fetched less than the TTL earlier under the other ordering.
C6_Witness ==
    /\ cm.op = "markets" /\ Len(cm.ids) = 2 /\ cm.otherOrder
    /\ cm.age = CACHE_TTL - 1
    /\ ~cm.upstream /\ cm.servedPrior /\ Len(cm.ret) = 2

\* C7: a lookup made when the provider's last answer for the ids (the coin) is
\* missing or at least TTL old (12 s for markets, 60 s for a coin detail)
\* issues an upstream request; it returns what the provider answers now, and
\* the empty sequence (Missing) when the request fails, never the old answer.
C7_StrictExpiry ==
    /\ (cm.op = "markets" /\ cm.ids # <<>>
           /\ (cm.age = NoneNum \/ cm.age >= CACHE_TTL))
          => /\ cm.upstream
             /\ cm.outcome = "fail" => cm.ret = <<>>
             /\ cm.outcome = "empty" => cm.ret = <<>>
             /\ cm.outcome = "ok" => cm.servedLive
    /\ (cm.op = "detail" /\ (cm.age = NoneNum \/ cm.age >= COIN_DETAIL_TTL))
          => /\ cm.upstream
             /\ cm.outcome = "fail" => cm.detail = NoDetail
             /\ cm.outcome = "ok" => cm.servedLive

\* C7 witness: a markets lookup made exactly TTL after the provider's last
\* answer, whose upstream request failed, returned the empty sequence although
\* quotes were cached.
C7_Witness ==
    /\ cm.op = "markets" /\ cm.age = CACHE_TTL
    /\ Len(Remembered(cm.fetched, BagOf(cm.ids), NoAnswer).data) = 2
    /\ cm.upstream /\ cm.outcome = "fail" /\ cm.ret = <<>>

(***************************************************************************)
(* Claims about the resolver, checked under SpecResolver.                  *)
(***************************************************************************)
C8_PreferredFamilies ==
    <<"ethereum", "binance-smart-chain", "polygon-pos", "avalanche", "arbitrum-one",
      "optimistic-ethereum">>

C8_HasAddress(platforms, p) ==
    \E j \in 1..Len(platforms) : platforms[j][1] = p /\ platforms[j][2] # ""

\* C8: when the coin's platform map has a non-empty address on a preferred
\* family, the resolver returns the platform and address of the earliest such
\* family in the order ethereum, binance-smart-chain, polygon-pos, avalanche,
\* arbitrum-one, optimistic-ethereum; when no platform has a non-empty
\* address (or there is no detail) it returns NotFound.
C8_EarliestPreferredFamily ==
    cm.op = "resolve" =>
       LET pl == cm.detail.platforms
           have == {i \in 1..Len(C8_PreferredFamilies) : C8_HasAddress(pl, C8_PreferredFamilies[i])}
       IN  /\ have # {} =>
                 \E i \in have :
                    /\ \A k \in have : i <= k
                    /\ cm.found.platform = C8_PreferredFamilies[i]
                    /\ \E j \in 1..Len(pl) : /\ pl[j][1] = C8_PreferredFamilies[i]
                                             /\ pl[j][2] = cm.found.contract
           /\ (\A j \in 1..Len(pl) : pl[j][2] = "") => cm.found = NotFound

\* C8 witness: a coin whose map lists polygon-pos before ethereum, both with an
\* address, resolved to the ethereum address.
C8_Witness ==
    /\ cm.op = "resolve" /\ cm.found.platform = "ethereum"
    /\ cm.found.contract = AddressOn("ethereum")
    /\ \E i \in 1..Len(cm.detail.platforms), j \in 1..Len(cm.detail.platforms) :
          /\ i < j
          /\ cm.detail.platforms[i] = <<"polygon-pos", AddressOn("polygon-pos")>>
          /\ cm.detail.platforms[j] = <<"ethereum", AddressOn("ethereum")>>

(***************************************************************************)
(* Claims about get_web3 across reloads, checked under SpecOneThread.      *)
(***************************************************************************)
C11_CachedEntryKept ==
    \A k \in DOMAIN WEB3_PROVIDERS :
       /\ k \in DOMAIN WEB3_PROVIDERS'
       /\ WEB3_PROVIDERS'[k] = WEB3_PROVIDERS[k]
       /\ k \in DOMAIN RPC_URLS'

C11_ReturnsCached ==
    /\ \A k \in W3Keys : Cardinality(HandlesOf(k)) <= 1
    /\ \A t \in OneThread :
          (thr[t].pc = "ret" /\ thr[t].key \in DOMAIN WEB3_PROVIDERS) =>
             /\ thr[t].ret = WEB3_PROVIDERS[thr[t].key]
             /\ thr[t].ret \in HandlesOf(thr[t].key)

\* C11: in a single thread, once get_web3 has cached a handle for a key, no
\* step (a reload included) changes or removes that entry of the handle map
\* or removes the key from RPC_URLS; every get_web3 call that ends while the
\* key is cached returns the cached handle; and no second handle is ever
\* built for the key, so the handle keeps the URL it was created with even
\* when a reload has changed the key's RPC URL.
C11_SameHandleAcrossReloads ==
    /\ []C11_ReturnsCached
    /\ [][C11_CachedEntryKept]_vars

\* C11 witness: a later call found the handle in the map and returns it after
\* a reload has given the key another RPC URL than the handle was built for.
C11_Witness ==
    \E t \in OneThread :
       /\ thr[t].pc = "ret" /\ thr[t].hit
       /\ thr[t].ret # NoHandle
       /\ thr[t].ret.url # RPC_URLS[thr[t].key]
       /\ CHAIN_CONFIG_MTIME > 1

====
